---- MODULE Spec2Model ----
(***************************************************************************)
(* A model of the CRM application of src/app.py: the four tables (User,    *)
(* Contact, Message, ScheduledEmail), the access gate, the route handlers  *)
(* and the timer-driven deferred-send scheduler.                           *)
(*                                                                         *)
(* Conventions.  Text is a sequence of one-character strings, so that      *)
(* strip(), lower(), int() and float() are computed and not assumed.  An   *)
(* optional value (None in the source) is the empty sequence <<>>, a       *)
(* present one is <<v>>.  A table is a function from primary key to row.   *)
(* A request form and the process environment are functions from the keys  *)
(* that are present to their text.  Float columns hold tenths (2.5 is 25). *)
(* Times are whole units of twelve hours.                                  *)
(***************************************************************************)
EXTENDS Integers, Sequences, FiniteSets, Bags, TLC

VARIABLES
    started,    \* create_app has registered the routes
    environ,    \* os.environ of the process
    users,      \* table User
    contacts,   \* table Contact
    messages,   \* table Message
    scheduled,  \* the ScheduledEmail objects the timers are closed over
    timers,     \* bag of armed threading.Timer objects: [sid, due]
    now,        \* datetime.utcnow()
    session,    \* the browser session: <<>> or <<user id>>
    request,    \* the last request handled: [method, form, id]
    response,   \* what the last handler answered: [route, result]
    sent,       \* the sender calls the last handler or callback made
    fired       \* history: the timer callbacks run so far, [sid, at]

vars == <<started, environ, users, contacts, messages, scheduled, timers,
          now, session, request, response, sent, fired>>

-----------------------------------------------------------------------------
(* Bounds of the model: the rows a table may hold, and the last instant of *)
(* the clock.  A request that would add a row to a full table is left out. *)

MaxUsers == 2
MaxContacts == 2
MaxMessages == 2
MaxScheduled == 1
MaxTime == 5

(* timedelta(days=1), in units of twelve hours *)
Day == 2

-----------------------------------------------------------------------------
(* Text *)

None == <<>>
Some(v) == <<v>>

Max(S) == CHOOSE x \in S : \A y \in S : y <= x

RECURSIVE lstrip(_)
lstrip(s) == IF s # <<>> /\ Head(s) = " " THEN lstrip(Tail(s)) ELSE s

RECURSIVE rstrip(_)
rstrip(s) ==
    IF s # <<>> /\ s[Len(s)] = " " THEN rstrip(SubSeq(s, 1, Len(s) - 1)) ELSE s

strip(s) == rstrip(lstrip(s))

UpperCase == <<"A", "B", "C", "D", "E", "F", "G", "H", "I", "J", "K", "L", "M",
               "N", "O", "P", "Q", "R", "S", "T", "U", "V", "W", "X", "Y", "Z">>
LowerCase == <<"a", "b", "c", "d", "e", "f", "g", "h", "i", "j", "k", "l", "m",
               "n", "o", "p", "q", "r", "s", "t", "u", "v", "w", "x", "y", "z">>

LowerChar(c) ==
    IF \E i \in 1..Len(UpperCase) : UpperCase[i] = c
    THEN LowerCase[CHOOSE i \in 1..Len(UpperCase) : UpperCase[i] = c]
    ELSE c

lower(s) == [i \in 1..Len(s) |-> LowerChar(s[i])]

Digits == {"0", "1", "2", "3", "4", "5", "6", "7", "8", "9"}

DigitVal(c) ==
    CASE c = "0" -> 0 [] c = "1" -> 1 [] c = "2" -> 2 [] c = "3" -> 3
      [] c = "4" -> 4 [] c = "5" -> 5 [] c = "6" -> 6 [] c = "7" -> 7
      [] c = "8" -> 8 [] c = "9" -> 9

AllDigits(s) == s # <<>> /\ \A i \in 1..Len(s) : s[i] \in Digits

RECURSIVE DigitsVal(_)
DigitsVal(s) ==
    IF s = <<>> THEN 0
    ELSE 10 * DigitsVal(SubSeq(s, 1, Len(s) - 1)) + DigitVal(s[Len(s)])

(* int(text): <<n>>, or None for ValueError.  Decimal digits between       *)
(* optional blanks; no other literal occurs among the inputs of the model. *)
int_text(s) ==
    LET t == strip(s) IN IF AllDigits(t) THEN Some(DigitsVal(t)) ELSE None

(* float(text) in tenths: digits, or digits "." digit; None for ValueError *)
float_text(s) ==
    LET t == strip(s)
        n == Len(t)
    IN  IF AllDigits(t) THEN Some(10 * DigitsVal(t))
        ELSE IF n >= 3 /\ t[n - 1] = "." /\ AllDigits(SubSeq(t, 1, n - 2))
                /\ t[n] \in Digits
             THEN Some(10 * DigitsVal(SubSeq(t, 1, n - 2)) + DigitVal(t[n]))
             ELSE None

(* request.form.get(key, default) and os.environ.get(key, default) *)
get(form, key, default) == IF key \in DOMAIN form THEN form[key] ELSE default

(* The next primary key of a table: SQLite's rowid of an INTEGER PRIMARY   *)
(* KEY column, one more than the largest key in use.                       *)
NextId(table) == IF DOMAIN table = {} THEN 1 ELSE Max(DOMAIN table) + 1

Row(table, id, row) ==
    [i \in DOMAIN table \cup {id} |-> IF i = id THEN row ELSE table[i]]

Without(table, id) == [i \in DOMAIN table \ {id} |-> table[i]]

EmptyTable == [i \in {} |-> None]

-----------------------------------------------------------------------------
(* The words of the program *)

master == <<"m", "a", "s", "t", "e", "r">>
management == <<"m", "a", "n", "a", "g", "e", "m", "e", "n", "t">>
engineer == <<"e", "n", "g", "i", "n", "e", "e", "r">>
billing == <<"b", "i", "l", "l", "i", "n", "g">>
admin == <<"a", "d", "m", "i", "n">>
admin123 == <<"a", "d", "m", "i", "n", "1", "2", "3">>
email == <<"e", "m", "a", "i", "l">>
sms == <<"s", "m", "s">>

-----------------------------------------------------------------------------
(* Users and passwords *)

(* werkzeug's salted hash, kept as "a hash of p": check_password_hash     *)
(* accepts exactly the password the hash was made from.                    *)
generate_password_hash(password) == [hash_of |-> password]

check_password(user, password) == user.password_hash.hash_of = password

(* User.query.filter_by(username=...).first(): <<id>> or None *)
UserByName(username) ==
    IF \E i \in DOMAIN users : users[i].username = username
    THEN Some(CHOOSE i \in DOMAIN users : users[i].username = username)
    ELSE None

(* load_logged_in_user: g.user, <<row>> or None *)
g_user ==
    IF session = None THEN None
    ELSE IF session[1] \in DOMAIN users THEN Some(users[session[1]])
    ELSE None

-----------------------------------------------------------------------------
(* The access gate.  Each guard answers the redirect it makes, or what the *)
(* wrapped view answers.                                                   *)

login_required(user, view) == IF user = None THEN "redirect_login" ELSE view

role_required_any_role(user, roles, view) ==
    IF user = None THEN "redirect_login" ELSE view

role_required(user, roles, view) ==
    IF user = None THEN "redirect_login"
    ELSE IF lower(user[1].role) \notin {lower(r) : r \in roles}
         THEN "redirect_index"
         ELSE view

Answer(route, result) == response' = [route |-> route, result |-> result]

NoForm == [k \in {} |-> <<>>]

Request(method, form, id) ==
    request' = [method |-> method, form |-> form, id |-> id]

-----------------------------------------------------------------------------
(* create_app: create the tables, the default master user when the User    *)
(* table is empty, and register the routes.                                *)

create_app_always_bootstraps ==
    /\ users' = Row(users, NextId(users),
                    [username |-> admin,
                     password_hash |-> generate_password_hash(admin123),
                     role |-> master])

create_app_bootstrap ==
    IF DOMAIN users = {}
    THEN users' = Row(users, NextId(users),
                      [username |-> admin,
                       password_hash |-> generate_password_hash(admin123),
                       role |-> master])
    ELSE UNCHANGED users

create_app ==
    /\ create_app_bootstrap
    /\ started' = TRUE
    /\ Answer("create_app", "started")
    /\ Request("start", NoForm, 0)
    /\ sent' = <<>>
    /\ UNCHANGED <<environ, contacts, messages, scheduled, timers, now,
                   session, fired>>

-----------------------------------------------------------------------------
(* /login, /logout, /users/new *)

login(method, form) ==
    /\ started
    /\ Request(method, form, 0)
    /\ sent' = <<>>
    /\ UNCHANGED <<started, environ, users, contacts, messages, scheduled,
                   timers, now, fired>>
    /\ IF method = "POST"
       THEN LET username == strip(get(form, "username", <<>>))
                password == strip(get(form, "password", <<>>))
                user == UserByName(username)
            IN  IF user # None /\ check_password(users[user[1]], password)
                THEN /\ session' = Some(user[1])
                     /\ Answer("login", "redirect_index")
                ELSE /\ UNCHANGED session
                     /\ Answer("login", "invalid")
       ELSE /\ UNCHANGED session
            /\ Answer("login", "render")

logout ==
    /\ started
    /\ Request("GET", NoForm, 0)
    /\ sent' = <<>>
    /\ UNCHANGED <<started, environ, users, contacts, messages, scheduled,
                   timers, now, fired>>
    /\ LET gate == login_required(g_user, "view")
       IN  IF gate # "view"
           THEN Answer("logout", gate) /\ UNCHANGED session
           ELSE session' = None /\ Answer("logout", "redirect_login")

Roles == {master, management, engineer, billing}

create_user_view_upsert(method, form) ==
    IF method # "POST"
    THEN Answer("create_user", "render") /\ UNCHANGED users
    ELSE LET username == strip(get(form, "username", <<>>))
             password == strip(get(form, "password", <<>>))
             role == lower(strip(get(form, "role", engineer)))
             id == IF UserByName(username) # None THEN UserByName(username)[1]
                   ELSE NextId(users)
         IN  IF username = <<>> \/ password = <<>>
             THEN Answer("create_user", "required") /\ UNCHANGED users
             ELSE IF role \notin {master, management, engineer, billing}
             THEN Answer("create_user", "invalid_role") /\ UNCHANGED users
             ELSE /\ users' = Row(users, id,
                                  [username |-> username,
                                   password_hash |->
                                       generate_password_hash(password),
                                   role |-> role])
                  /\ Answer("create_user", "created")

create_user_view(method, form) ==
    IF method # "POST"
    THEN Answer("create_user", "render") /\ UNCHANGED users
    ELSE LET username == strip(get(form, "username", <<>>))
             password == strip(get(form, "password", <<>>))
             role == lower(strip(get(form, "role", engineer)))
         IN  IF username = <<>> \/ password = <<>>
             THEN Answer("create_user", "required") /\ UNCHANGED users
             ELSE IF UserByName(username) # None
             THEN Answer("create_user", "exists") /\ UNCHANGED users
             ELSE IF role \notin Roles
             THEN Answer("create_user", "invalid_role") /\ UNCHANGED users
             ELSE /\ users' = Row(users, NextId(users),
                                  [username |-> username,
                                   password_hash |->
                                       generate_password_hash(password),
                                   role |-> role])
                  /\ Answer("create_user", "created")

create_user(method, form) ==
    /\ started
    /\ Request(method, form, 0)
    /\ sent' = <<>>
    /\ UNCHANGED <<started, environ, contacts, messages, scheduled, timers,
                   now, session, fired>>
    /\ LET gate == login_required(g_user,
                       role_required(g_user, {master}, "view"))
       IN  IF gate # "view"
           THEN Answer("create_user", gate) /\ UNCHANGED users
           ELSE create_user_view(method, form)

-----------------------------------------------------------------------------
(* Contacts.  A row holds the columns the handlers read back; company,     *)
(* address and notes are stripped and stored like phone, and nothing reads *)
(* them.                                                                   *)

(* Contact.email is declared unique=True: a commit that would leave two    *)
(* rows with one email raises IntegrityError and changes nothing.          *)
UniqueEmail_not_enforced(table) == TRUE

UniqueEmail(table) ==
    \A i, j \in DOMAIN table : i # j => table[i].email # table[j].email

(* Contact.query.filter_by(email=...).first() *)
filter_by_email_never(addr) == None

filter_by_email(addr) ==
    IF \E i \in DOMAIN contacts : contacts[i].email = addr
    THEN Some(CHOOSE i \in DOMAIN contacts : contacts[i].email = addr)
    ELSE None

(* float(request.form.get(key, '0') or 0), ValueError giving 0.0 *)
create_float(form, key) ==
    LET t == get(form, key, <<"0">>)
    IN  IF t = <<>> THEN 0
        ELSE IF float_text(t) = None THEN 0 ELSE float_text(t)[1]

(* int(request.form.get(key, '0') or 0), ValueError giving 0 *)
create_int(form, key) ==
    LET t == get(form, key, <<"0">>)
    IN  IF t = <<>> THEN 0
        ELSE IF int_text(t) = None THEN 0 ELSE int_text(t)[1]

(* float(request.form.get(key, current) or current), ValueError passing:   *)
(* an absent or empty field gives float(current), which is current.        *)
edit_float_zero_on_error(form, key, current) ==
    IF key \notin DOMAIN form \/ form[key] = <<>> THEN current
    ELSE IF float_text(form[key]) = None THEN 0 ELSE float_text(form[key])[1]

edit_float(form, key, current) ==
    IF key \notin DOMAIN form \/ form[key] = <<>> THEN current
    ELSE IF float_text(form[key]) = None THEN current
         ELSE float_text(form[key])[1]

(* int(request.form.get('rating', current) or current), ValueError passing *)
edit_int(form, key, current) ==
    IF key \notin DOMAIN form \/ form[key] = <<>> THEN current
    ELSE IF int_text(form[key]) = None THEN current
         ELSE int_text(form[key])[1]

create_contact_view(method, form) ==
    IF method # "POST"
    THEN Answer("create_contact", "render") /\ UNCHANGED contacts
    ELSE LET first_name == strip(get(form, "first_name", <<>>))
             last_name == strip(get(form, "last_name", <<>>))
             addr == strip(get(form, "email", <<>>))
             phone == strip(get(form, "phone", <<>>))
             row == [first_name |-> first_name,
                     last_name |-> last_name,
                     email |-> addr,
                     phone |-> phone,
                     potential_spend |-> create_float(form, "potential_spend"),
                     accepted_spend |-> create_float(form, "accepted_spend"),
                     billed_amount |-> create_float(form, "billed_amount"),
                     received_amount |-> create_float(form, "received_amount"),
                     rating |-> create_int(form, "rating")]
             table == Row(contacts, NextId(contacts), row)
         IN  IF first_name = <<>> \/ last_name = <<>> \/ addr = <<>>
             THEN Answer("create_contact", "required") /\ UNCHANGED contacts
             ELSE IF filter_by_email(addr) # None
             THEN Answer("create_contact", "exists") /\ UNCHANGED contacts
             ELSE IF ~UniqueEmail(table)
             THEN Answer("create_contact", "IntegrityError")
                  /\ UNCHANGED contacts
             ELSE contacts' = table /\ Answer("create_contact", "created")

create_contact(method, form) ==
    /\ started
    /\ Request(method, form, 0)
    /\ sent' = <<>>
    /\ UNCHANGED <<started, environ, users, messages, scheduled, timers, now,
                   session, fired>>
    /\ LET gate == login_required(g_user,
                       role_required(g_user, {master, management}, "view"))
       IN  IF gate # "view"
           THEN Answer("create_contact", gate) /\ UNCHANGED contacts
           ELSE create_contact_view(method, form)

edit_contact_view(contact_id, method, form) ==
    IF contact_id \notin DOMAIN contacts
    THEN Answer("edit_contact", "not_found") /\ UNCHANGED contacts
    ELSE IF method # "POST"
    THEN Answer("edit_contact", "render") /\ UNCHANGED contacts
    ELSE LET c == contacts[contact_id]
             row == [first_name |-> strip(get(form, "first_name", <<>>)),
                     last_name |-> strip(get(form, "last_name", <<>>)),
                     email |-> strip(get(form, "email", <<>>)),
                     phone |-> strip(get(form, "phone", <<>>)),
                     potential_spend |->
                         edit_float(form, "potential_spend", c.potential_spend),
                     accepted_spend |->
                         edit_float(form, "accepted_spend", c.accepted_spend),
                     billed_amount |->
                         edit_float(form, "billed_amount", c.billed_amount),
                     received_amount |->
                         edit_float(form, "received_amount", c.received_amount),
                     rating |-> edit_int(form, "rating", c.rating)]
             table == Row(contacts, contact_id, row)
         IN  IF ~UniqueEmail(table)
             THEN Answer("edit_contact", "IntegrityError")
                  /\ UNCHANGED contacts
             ELSE contacts' = table /\ Answer("edit_contact", "updated")

edit_contact(contact_id, method, form) ==
    /\ started
    /\ Request(method, form, contact_id)
    /\ sent' = <<>>
    /\ UNCHANGED <<started, environ, users, messages, scheduled, timers, now,
                   session, fired>>
    /\ LET gate == login_required(g_user,
                       role_required(g_user, {master, management}, "view"))
       IN  IF gate # "view"
           THEN Answer("edit_contact", gate) /\ UNCHANGED contacts
           ELSE edit_contact_view(contact_id, method, form)

(* Message.contact_id is declared nullable=False *)
NotNull_not_enforced(table) == TRUE

NotNull(table) == \A m \in DOMAIN table : table[m].contact_id # None

(* db.session.delete(contact); commit.  Contact.messages is a relationship *)
(* with no delete cascade, so the unit of work sets contact_id of the      *)
(* contact's messages to NULL, which the NOT NULL column refuses: the      *)
(* commit raises IntegrityError and nothing changes.  ScheduledEmail has   *)
(* no relationship, and SQLite does not enforce its foreign key.           *)
delete_contact_view(contact_id) ==
    IF contact_id \notin DOMAIN contacts
    THEN Answer("delete_contact", "not_found")
         /\ UNCHANGED <<contacts, messages>>
    ELSE LET orphaned ==
                 [m \in DOMAIN messages |->
                     IF messages[m].contact_id = Some(contact_id)
                     THEN [messages[m] EXCEPT !.contact_id = None]
                     ELSE messages[m]]
         IN  IF ~NotNull(orphaned)
             THEN Answer("delete_contact", "IntegrityError")
                  /\ UNCHANGED <<contacts, messages>>
             ELSE /\ contacts' = Without(contacts, contact_id)
                  /\ messages' = orphaned
                  /\ Answer("delete_contact", "deleted")

delete_contact(contact_id) ==
    /\ started
    /\ Request("POST", NoForm, contact_id)
    /\ sent' = <<>>
    /\ UNCHANGED <<started, environ, users, scheduled, timers, now, session,
                   fired>>
    /\ LET gate == login_required(g_user,
                       role_required(g_user, {master, management}, "view"))
       IN  IF gate # "view"
           THEN Answer("delete_contact", gate)
                /\ UNCHANGED <<contacts, messages>>
           ELSE delete_contact_view(contact_id)

-----------------------------------------------------------------------------
(* The senders.  Each answers "True", "False" or the exception it lets     *)
(* through; delivered says whether the transport accepts the message.      *)

Truthy(env, key) == get(env, key, <<>>) # <<>>

(* int(os.environ.get('SMTP_PORT', 587)) is evaluated before the settings  *)
(* are checked and outside the try block.                                  *)
send_email(to_address, subject, body, delivered) ==
    IF "SMTP_PORT" \in DOMAIN environ /\ int_text(environ["SMTP_PORT"]) = None
    THEN "ValueError"
    ELSE IF ~Truthy(environ, "SMTP_SERVER") \/ ~Truthy(environ, "SMTP_USERNAME")
            \/ ~Truthy(environ, "SMTP_PASSWORD")
    THEN "False"
    ELSE IF delivered THEN "True" ELSE "False"

send_sms(to_number, body, delivered) ==
    IF ~Truthy(environ, "TWILIO_ACCOUNT_SID")
       \/ ~Truthy(environ, "TWILIO_AUTH_TOKEN")
       \/ ~Truthy(environ, "TWILIO_PHONE_NUMBER")
    THEN "False"
    ELSE IF delivered THEN "True" ELSE "False"

(* A sender call, as the variable sent records it *)
EmailCall(to_address, subject, body, returned) ==
    [sender |-> "send_email", to |-> to_address, subject |-> subject,
     body |-> body, returned |-> returned]

SmsCall(to_number, body, returned) ==
    [sender |-> "send_sms", to |-> to_number, subject |-> <<>>, body |-> body,
     returned |-> returned]

-----------------------------------------------------------------------------
(* The deferred-send scheduler *)

(* datetime.fromisoformat(text): <<time>>, or None for ValueError.  A      *)
(* timestamp is written as its number of time units.                       *)
fromisoformat(text) == IF AllDigits(text) THEN Some(DigitsVal(text)) ELSE None

Timer(sid, due) == SetToBag({[sid |-> sid, due |-> due]})

(* schedule_email_job called twice for one record *)
schedule_email_job_twice(sid, start_at) ==
    timers' = timers (+) Timer(sid, IF start_at < now THEN now ELSE start_at)
                     (+) Timer(sid, IF start_at < now THEN now ELSE start_at)

(* schedule_email_job that arms no timer for a start_at in the past *)
schedule_email_job_skips_past(sid, start_at) ==
    IF start_at < now THEN UNCHANGED timers
    ELSE timers' = timers (+) Timer(sid, start_at)

(* schedule_email_job: arm a timer for start_at, at once when it is past *)
schedule_email_job(sid, start_at) ==
    timers' = timers (+) Timer(sid, IF start_at < now THEN now ELSE start_at)

(* A re-arming test that does not read end_at *)
rearms_ignores_end(entry, next_time) == entry.recurring

(* The test that re-arms a recurring entry *)
rearms(entry, next_time) ==
    entry.recurring /\ (entry.end_at = None \/ next_time <= entry.end_at[1])

(* _send_and_reschedule, the callback of the timer [sid, due] *)
send_and_reschedule(sid, due, delivered) ==
    /\ BagIn([sid |-> sid, due |-> due], timers)
    /\ due <= now
    /\ LET entry == scheduled[sid]
           armed == timers (-) Timer(sid, due)
           found == entry.contact_id \in DOMAIN contacts
           success == send_email(contacts[entry.contact_id].email,
                                 entry.subject, entry.body, delivered)
           call == EmailCall(contacts[entry.contact_id].email, entry.subject,
                             entry.body, success)
           after_send == IF found THEN [entry EXCEPT !.sent_at = Some(now)]
                         ELSE entry
           next_time == entry.start_at + Day
       IN  /\ fired' = fired \cup {[sid |-> sid, at |-> entry.start_at]}
           /\ sent' = IF found THEN <<call>> ELSE <<>>
           /\ IF found /\ success = "ValueError"
              THEN \* the exception ends the timer's thread
                   /\ timers' = armed
                   /\ UNCHANGED scheduled
                   /\ Answer("timer", "ValueError")
              ELSE IF rearms(after_send, next_time)
              THEN /\ scheduled' =
                          Row(scheduled, sid,
                              [after_send EXCEPT !.start_at = next_time])
                   /\ timers' = armed (+)
                          Timer(sid, IF next_time < now THEN now ELSE next_time)
                   /\ Answer("timer", "rearmed")
              ELSE /\ scheduled' = Row(scheduled, sid, after_send)
                   /\ timers' = armed
                   /\ Answer("timer", "done")
    /\ Request("timer", NoForm, sid)
    /\ UNCHANGED <<started, environ, users, contacts, messages, now, session>>

(* The clock.  A timer runs at the instant it is due: time does not pass   *)
(* over a timer that is due.                                               *)
Tick ==
    /\ now < MaxTime
    /\ \A t \in BagToSet(timers) : now < t.due
    /\ now' = now + 1
    /\ UNCHANGED <<started, environ, users, contacts, messages, scheduled,
                   timers, session, request, response, sent, fired>>

-----------------------------------------------------------------------------
(* /message/new/<contact_id> *)

send_message_view(contact_id, method, form, delivered) ==
    LET quiet == UNCHANGED <<messages, scheduled, timers>> /\ sent' = <<>>
        reply(result) == Answer("send_message_route", result)
    IN
    IF contact_id \notin DOMAIN contacts THEN reply("not_found") /\ quiet
    ELSE IF method # "POST" THEN reply("render") /\ quiet
    ELSE
    LET contact == contacts[contact_id]
        channel == get(form, "channel", None)
        subject == strip(get(form, "subject", <<>>))
        body == strip(get(form, "body", <<>>))
        is_test == get(form, "send_test", <<>>) = <<"1">>
        start_at_str == get(form, "start_at", <<>>)
        end_at_str == get(form, "end_at", <<>>)
        recurring == get(form, "recurring", <<>>) = <<"o", "n">>
        success == IF channel = email
                   THEN send_email(contact.email, subject, body, delivered)
                   ELSE send_sms(contact.phone, body, delivered)
        call == IF channel = email
                THEN EmailCall(contact.email, subject, body, success)
                ELSE SmsCall(contact.phone, body, success)
    IN
    IF channel \notin {email, sms} \/ body = <<>>
    THEN reply("invalid") /\ quiet
    ELSE IF is_test
    THEN IF channel = email /\ subject = <<>>
         THEN reply("subject_required") /\ quiet
         ELSE /\ sent' = <<call>>
              /\ UNCHANGED <<messages, scheduled, timers>>
              /\ reply(CASE success = "True" -> "test_sent"
                         [] success = "False" -> "test_not_sent"
                         [] OTHER -> success)
    ELSE IF start_at_str # <<>> /\ channel = email
    THEN LET start_at == fromisoformat(start_at_str)
             end_at == IF end_at_str # <<>> THEN fromisoformat(end_at_str)
                       ELSE None
             sid == NextId(scheduled)
         IN  IF start_at = None THEN reply("invalid_start") /\ quiet
             ELSE IF end_at_str # <<>> /\ end_at = None
             THEN reply("invalid_end") /\ quiet
             ELSE /\ scheduled' =
                         Row(scheduled, sid,
                             [contact_id |-> contact_id,
                              subject |-> subject,
                              body |-> body,
                              start_at |-> start_at[1],
                              end_at |-> end_at,
                              recurring |-> recurring,
                              sent_at |-> None])
                  /\ schedule_email_job(sid, start_at[1])
                  /\ sent' = <<>>
                  /\ UNCHANGED messages
                  /\ reply("scheduled")
    ELSE IF channel = email /\ subject = <<>>
    THEN reply("subject_required") /\ quiet
    ELSE /\ sent' = <<call>>
         /\ UNCHANGED <<scheduled, timers>>
         /\ IF success = "True"
            THEN /\ messages' =
                        Row(messages, NextId(messages),
                            [contact_id |-> Some(contact_id),
                             channel |-> channel,
                             subject |-> IF channel = email THEN Some(subject)
                                         ELSE None,
                             body |-> body,
                             sent_at |-> now])
                 /\ reply("sent")
            ELSE /\ UNCHANGED messages
                 /\ reply(IF success = "False" THEN "not_sent" ELSE success)

send_message_route(contact_id, method, form, delivered) ==
    /\ started
    /\ Request(method, form, contact_id)
    /\ UNCHANGED <<started, environ, users, contacts, now, session, fired>>
    /\ LET gate == login_required(g_user, "view")
       IN  IF gate # "view"
           THEN /\ Answer("send_message_route", gate)
                /\ sent' = <<>>
                /\ UNCHANGED <<messages, scheduled, timers>>
           ELSE send_message_view(contact_id, method, form, delivered)

-----------------------------------------------------------------------------
(* Environments, requests and the specifications *)

NoSettings == NoForm

SettingsWithPort(port) ==
    [SMTP_SERVER |-> <<"h">>, SMTP_PORT |-> port, SMTP_USERNAME |-> <<"u">>,
     SMTP_PASSWORD |-> <<"p">>, TWILIO_ACCOUNT_SID |-> <<"a">>,
     TWILIO_AUTH_TOKEN |-> <<"t">>, TWILIO_PHONE_NUMBER |-> <<"1">>]

Settings == SettingsWithPort(<<"4", "6", "5">>)

Environments == {NoSettings, Settings, SettingsWithPort(<<"s", "m", "t", "p">>)}

LoginForms ==
    {[username |-> u, password |-> p] :
        u \in {admin, <<"b">>}, p \in {admin123, <<" ", "p">>}}

UserForms ==
    {[username |-> <<"b", " ">>, password |-> <<"p">>,
      role |-> <<"M", "a", "n", "a", "g", "e", "m", "e", "n", "t">>],
     [username |-> <<"b">>, password |-> <<"p">>,
      role |-> <<" ", "e", "n", "g", "i", "n", "e", "e", "r">>],
     [username |-> <<"b">>, password |-> <<"p">>],
     [username |-> <<"c">>, password |-> <<"p">>,
      role |-> <<"r", "o", "o", "t">>],
     [username |-> admin, password |-> <<"p">>, role |-> billing],
     [username |-> <<"b">>, password |-> <<" ">>, role |-> master]}

ContactForm(first_name, last_name, addr) ==
    [first_name |-> first_name, last_name |-> last_name, email |-> addr,
     phone |-> <<"5">>]

ContactForms ==
    {ContactForm(<<"n">>, <<"n">>, e) :
        e \in {<<"a">>, <<" ", "a", " ">>, <<"b">>, <<" ">>}}
    \cup {ContactForm(<<" ">>, <<"n">>, <<"a">>),
          ContactForm(<<"n">>, <<>>, <<"b">>),
          [first_name |-> <<"n">>, last_name |-> <<"n">>]}

EditForms == {ContactForm(<<"n">>, <<"n">>, e) : e \in {<<"a">>, <<"b", " ">>, <<>>}}

Init ==
    /\ started = FALSE
    /\ environ \in Environments
    /\ users = EmptyTable
    /\ contacts = EmptyTable
    /\ messages = EmptyTable
    /\ scheduled = EmptyTable
    /\ timers = EmptyBag
    /\ now = 0
    /\ session = None
    /\ request = [method |-> "none", form |-> NoForm, id |-> 0]
    /\ response = [route |-> "none", result |-> "none"]
    /\ sent = <<>>
    /\ fired = {}

InitNoSettings == Init /\ environ = NoSettings

ContactIds == 1..MaxContacts

(* The users and the contacts *)
Next ==
    \/ create_app
    \/ login("GET", NoForm)
    \/ \E f \in LoginForms : login("POST", f)
    \/ logout
    \/ /\ \/ create_user("GET", NoForm)
          \/ \E f \in UserForms : create_user("POST", f)
       /\ Cardinality(DOMAIN users') <= MaxUsers
    \/ /\ \/ create_contact("GET", NoForm)
          \/ \E f \in ContactForms : create_contact("POST", f)
       /\ Cardinality(DOMAIN contacts') <= MaxContacts
    \/ \E c \in ContactIds :
           \/ edit_contact(c, "GET", NoForm)
           \/ \E f \in EditForms : edit_contact(c, "POST", f)
    \/ \E c \in ContactIds : delete_contact(c)

Spec == InitNoSettings /\ [][Next]_vars

(* The pipeline fields of a contact *)
FloatFields ==
    {"potential_spend", "accepted_spend", "billed_amount", "received_amount"}

PipelineFields == FloatFields \cup {"rating"}

With(form, key, text) ==
    [k \in DOMAIN form \cup {key} |-> IF k = key THEN text ELSE form[k]]

FloatTexts == {<<>>, <<"x">>, <<"2", ".", "5">>}

RatingTexts == FloatTexts \cup {<<" ", "7">>}

PipelineForms ==
    LET base == ContactForm(<<"n">>, <<"n">>, <<"a">>)
    IN  {base}
        \cup {With(base, k, t) : k \in FloatFields, t \in FloatTexts}
        \cup {With(base, "rating", t) : t \in RatingTexts}

NextPipeline ==
    \/ create_app
    \/ login("POST", [username |-> admin, password |-> admin123])
    \/ /\ \E f \in PipelineForms \cup {ContactForm(<<"n">>, <<"n">>, <<"b">>)} :
              create_contact("POST", f)
       /\ Cardinality(DOMAIN contacts') <= MaxContacts
    \/ \E c \in ContactIds, f \in PipelineForms : edit_contact(c, "POST", f)

SpecPipeline == InitNoSettings /\ [][NextPipeline]_vars

(* Messages: immediate, test and scheduled sends at one instant *)
MessageForm(channel, subject, body) ==
    [channel |-> channel, subject |-> subject, body |-> body]

MessageForms ==
    LET mail == MessageForm(email, <<"s", " ">>, <<"b">>)
        bare == MessageForm(email, <<" ">>, <<"b">>)
        text == [channel |-> sms, body |-> <<"b">>]
    IN  {mail, bare, text,
         With(mail, "send_test", <<"1">>),
         With(bare, "send_test", <<"1">>),
         With(text, "send_test", <<"1">>),
         With(mail, "start_at", <<"0">>),
         With(bare, "start_at", <<"0">>),
         With(text, "start_at", <<"0">>),
         MessageForm(<<"f", "a", "x">>, <<"s">>, <<"b">>),
         MessageForm(email, <<"s">>, <<" ">>),
         [subject |-> <<"s">>, body |-> <<"b">>]}

TheContact == ContactForm(<<"n">>, <<"n">>, <<"a">>)

(* The keys of the stored contacts, and one key that is not stored *)
SomeContactIds == DOMAIN contacts \cup {NextId(contacts)}

AdminLogin == [username |-> admin, password |-> admin123]

NextMessages ==
    \/ create_app
    \/ login("POST", AdminLogin)
    \/ logout
    \/ /\ create_contact("POST", TheContact)
       /\ Cardinality(DOMAIN contacts') <= MaxContacts
    \/ \E c \in SomeContactIds : delete_contact(c)
    \/ /\ \E c \in SomeContactIds, delivered \in BOOLEAN :
              \/ send_message_route(c, "GET", NoForm, delivered)
              \/ \E f \in MessageForms :
                     send_message_route(c, "POST", f, delivered)
       /\ Cardinality(DOMAIN messages') <= MaxMessages
       /\ Cardinality(DOMAIN scheduled') <= MaxScheduled
    \/ \E sid \in DOMAIN scheduled, due \in 0..MaxTime, delivered \in BOOLEAN :
           send_and_reschedule(sid, due, delivered)

InitMessages == Init /\ environ # NoSettings

InitSettings == Init /\ environ = Settings

SpecMessages == InitMessages /\ [][NextMessages]_vars

(* The scheduler: scheduled sends, the clock and the timers *)
Scheduling(start_at, recurring, end_at) ==
    LET a == With(MessageForm(email, <<"s">>, <<"b">>), "start_at", start_at)
        b == IF recurring THEN With(a, "recurring", <<"o", "n">>) ELSE a
    IN  IF end_at = <<>> THEN b ELSE With(b, "end_at", end_at)

ScheduleForms ==
    {Scheduling(<<"1">>, TRUE, <<"4">>),
     Scheduling(<<"1">>, TRUE, <<>>),
     Scheduling(<<"2">>, TRUE, <<"1">>),
     Scheduling(<<"1">>, FALSE, <<"4">>),
     Scheduling(<<"1">>, TRUE, <<"s", "o", "o", "n">>),
     Scheduling(<<"n", "o", "w">>, FALSE, <<>>)}

NextScheduler ==
    \/ create_app
    \/ login("POST", AdminLogin)
    \/ /\ create_contact("POST", TheContact)
       /\ Cardinality(DOMAIN contacts') <= MaxContacts
    \/ \E c \in SomeContactIds : delete_contact(c)
    \/ /\ \E c \in SomeContactIds, f \in ScheduleForms :
              send_message_route(c, "POST", f, TRUE)
       /\ Cardinality(DOMAIN scheduled') <= MaxScheduled
    \/ \E sid \in DOMAIN scheduled, due \in 0..MaxTime, delivered \in BOOLEAN :
           send_and_reschedule(sid, due, delivered)
    \/ Tick

SpecScheduler == InitMessages /\ [][NextScheduler]_vars

(* A timer that is due runs its callback, and the clock advances *)
TimerFires ==
    \E sid \in DOMAIN scheduled, due \in 0..MaxTime, delivered \in BOOLEAN :
        send_and_reschedule(sid, due, delivered)

(* The entries of a stored contact, from their scheduling to their last    *)
(* firing                                                                  *)
NextFiring ==
    \/ create_app
    \/ login("POST", AdminLogin)
    \/ /\ create_contact("POST", TheContact)
       /\ Cardinality(DOMAIN contacts') <= MaxContacts
    \/ /\ \E c \in DOMAIN contacts, f \in ScheduleForms :
              send_message_route(c, "POST", f, TRUE)
       /\ Cardinality(DOMAIN scheduled') <= MaxScheduled
    \/ TimerFires
    \/ Tick

SpecFiring ==
    InitMessages /\ [][NextFiring]_vars /\ WF_vars(Tick) /\ WF_vars(TimerFires)

(* The scheduler in an environment whose settings are all well formed *)
SpecSchedulerSettings == InitSettings /\ [][NextScheduler]_vars

(* The roles: users of every role, and the routes they may ask for *)
RoleForms ==
    {[username |-> <<"b">>, password |-> <<"p">>,
      role |-> <<" ", "e", "n", "g", "i", "n", "e", "e", "r">>],
     [username |-> <<"c">>, password |-> <<"p">>,
      role |-> <<"B", "i", "l", "l", "i", "n", "g">>]}

RoleLogins ==
    {AdminLogin, [username |-> <<"b">>, password |-> <<"p">>],
     [username |-> <<"c">>, password |-> <<"p">>]}

RoleMessages ==
    LET mail == MessageForm(email, <<"s">>, <<"b">>)
    IN  {mail, With(mail, "start_at", <<"0">>), [channel |-> sms, body |-> <<"b">>]}

NextRoles ==
    \/ create_app
    \/ \E f \in RoleLogins : login("POST", f)
    \/ logout
    \/ /\ \E f \in RoleForms : create_user("POST", f)
       /\ Cardinality(DOMAIN users') <= MaxUsers
    \/ /\ create_contact("POST", TheContact)
       /\ Cardinality(DOMAIN contacts') <= MaxContacts
    \/ \E c \in SomeContactIds : edit_contact(c, "POST", TheContact)
    \/ \E c \in SomeContactIds : delete_contact(c)
    \/ /\ \E c \in SomeContactIds, f \in RoleMessages, delivered \in BOOLEAN :
              send_message_route(c, "POST", f, delivered)
       /\ Cardinality(DOMAIN messages') <= MaxMessages
       /\ Cardinality(DOMAIN scheduled') <= MaxScheduled

SpecRoles == InitSettings /\ [][NextRoles]_vars

-----------------------------------------------------------------------------
(* Properties of the contact and user routes, checked under Spec *)

IsBlank(text) == \A i \in 1..Len(text) : text[i] = " "

StoredEmails == {contacts[i].email : i \in DOMAIN contacts}

(* The session user may manage contacts: logged in, with the role master   *)
(* or management whatever its case.                                        *)
MayManageContacts ==
    /\ session # None
    /\ session[1] \in DOMAIN users
    /\ lower(users[session[1]].role) \in {master, management}

(* C1: a POST to /contact/new by an authorised user with a blank           *)
(* first_name, last_name or email, or with the email of a stored contact,  *)
(* is rejected and leaves the stored contacts as they were.                *)
C1_InvalidCreateIsRejected ==
    [][(/\ response'.route = "create_contact"
        /\ request'.method = "POST"
        /\ MayManageContacts
        /\ \/ IsBlank(get(request'.form, "first_name", <<>>))
           \/ IsBlank(get(request'.form, "last_name", <<>>))
           \/ IsBlank(get(request'.form, "email", <<>>))
           \/ get(request'.form, "email", <<>>) \in StoredEmails)
       => /\ contacts' = contacts
          /\ response'.result \in {"required", "exists"}]_vars

C1_Witness ==
    /\ response = [route |-> "create_contact", result |-> "exists"]
    /\ request.method = "POST"
    /\ request.form.email \in StoredEmails
    /\ MayManageContacts
    /\ Cardinality(DOMAIN contacts) = 1

(* C2: no two stored contacts ever have the same email *)
C2_EmailsAreUnique ==
    \A i, j \in DOMAIN contacts :
        i # j => contacts[i].email # contacts[j].email

(* An edit that asked for the email of another contact has been answered *)
C2_Witness ==
    /\ response = [route |-> "edit_contact", result |-> "IntegrityError"]
    /\ \E i \in DOMAIN contacts :
           i # request.id /\ contacts[i].email = strip(request.form.email)
    /\ Cardinality(DOMAIN contacts) = 2

(* C3: a request to create, edit or delete a contact made without a        *)
(* session user, or by a user whose role is neither master nor management, *)
(* is redirected and changes no contact.                                   *)
C3_GateKeepsContacts ==
    [][(/\ response'.route \in
              {"create_contact", "edit_contact", "delete_contact"}
        /\ ~MayManageContacts)
       => /\ contacts' = contacts
          /\ response'.result =
                 IF g_user = None THEN "redirect_login" ELSE "redirect_index"]_vars

C3_Witness ==
    /\ response = [route |-> "create_contact", result |-> "redirect_index"]
    /\ g_user # None
    /\ g_user[1].role = engineer

(* C7: a user is never removed, and keeps its username and role *)
C7_UsersAreKept ==
    [][\A i \in DOMAIN users :
          /\ i \in DOMAIN users'
          /\ users'[i].username = users[i].username
          /\ users'[i].role = users[i].role]_vars

C7_Witness ==
    /\ response = [route |-> "create_user", result |-> "created"]
    /\ Cardinality(DOMAIN users) = 2

(* C8: create_app on an empty User table creates exactly the user admin    *)
(* with role master, on a table with a user it creates none, and there is  *)
(* never more than one bootstrap user.                                     *)
C8_BootstrapOnce ==
    /\ [](Cardinality({i \in DOMAIN users : users[i].username = admin}) <= 1)
    /\ [][response'.route = "create_app"
          => IF DOMAIN users = {}
             THEN /\ Cardinality(DOMAIN users') = 1
                  /\ \A i \in DOMAIN users' :
                         /\ users'[i].username = admin
                         /\ users'[i].role = master
             ELSE users' = users]_vars

(* The application has been started again on a table that holds two users *)
C8_Witness ==
    /\ response.route = "create_app"
    /\ Cardinality(DOMAIN users) = 2

-----------------------------------------------------------------------------
(* Properties of the pipeline fields, checked under SpecPipeline *)

Unparsable(key, text) ==
    IF key = "rating" THEN int_text(text) = None ELSE float_text(text) = None

-----------------------------------------------------------------------------
(* Properties of the message route, checked under SpecMessages *)

(* C4: a POST to /message/new/<id> with channel email and a blank subject  *)
(* sends nothing and creates neither a Message nor a ScheduledEmail, on    *)
(* every path; with channel sms the sender is send_sms, called with the    *)
(* contact's phone.                                                        *)
C4_EmptySubjectIsRejected ==
    [][(/\ response'.route = "send_message_route"
        /\ request'.method = "POST"
        /\ g_user # None
        /\ request'.id \in DOMAIN contacts)
       => /\ (/\ get(request'.form, "channel", None) = email
              /\ IsBlank(get(request'.form, "subject", <<>>)))
             => /\ sent' = <<>>
                /\ messages' = messages
                /\ scheduled' = scheduled
          /\ get(request'.form, "channel", None) = sms
             => \A i \in 1..Len(sent') :
                    /\ sent'[i].sender = "send_sms"
                    /\ sent'[i].to = contacts[request'.id].phone]_vars

-----------------------------------------------------------------------------
(* Properties of the scheduler, checked under SpecScheduler *)

Min(S) == CHOOSE x \in S : \A y \in S : x <= y

(* The start_at values at which the timer of an entry has fired *)
FiredAt(sid) == {f.at : f \in {g \in fired : g.sid = sid}}

(* The start_at an entry was created with *)
FirstStart(sid) ==
    IF FiredAt(sid) = {} THEN scheduled[sid].start_at ELSE Min(FiredAt(sid))

Armed(sid) == \E t \in BagToSet(timers) : t.sid = sid

(* C5: a recurring entry with start_at T and an end_at, whose contact      *)
(* exists, fires at the times T + k days that are not after end_at, for    *)
(* k = 0, 1, ..., and at no other time: it never fires at another time,    *)
(* and once no timer is armed for it, it has fired at all of them.         *)
C5_FiresDailyUntilEnd ==
    \A sid \in DOMAIN scheduled :
        LET entry == scheduled[sid]
            T == FirstStart(sid)
            times == {t \in 0..(MaxTime + Day) :
                         /\ t <= entry.end_at[1]
                         /\ \E k \in 0..MaxTime : t = T + k * Day}
        IN  (/\ entry.recurring
             /\ entry.end_at # None
             /\ entry.contact_id \in DOMAIN contacts)
            => /\ FiredAt(sid) \subseteq times
               /\ ~Armed(sid) => FiredAt(sid) = times

(* C6: every firing of the timer of a recurring entry with no end_at       *)
(* advances start_at by one day and arms a timer for the new start_at, so  *)
(* that a timer is armed for the entry in every state.                     *)
C6_RecurringStaysArmed ==
    /\ [](\A sid \in DOMAIN scheduled :
              (scheduled[sid].recurring /\ scheduled[sid].end_at = None)
              => Armed(sid))
    /\ [][\A sid \in DOMAIN scheduled :
              (/\ [sid |-> sid, at |-> scheduled[sid].start_at]
                      \in fired' \ fired
               /\ scheduled[sid].recurring
               /\ scheduled[sid].end_at = None)
              => /\ scheduled'[sid].start_at = scheduled[sid].start_at + Day
                 /\ \E t \in BagToSet(timers') :
                        /\ t.sid = sid
                        /\ t.due = IF scheduled'[sid].start_at < now THEN now
                                   ELSE scheduled'[sid].start_at]_vars

-----------------------------------------------------------------------------
(* Properties of the roles, checked under SpecRoles *)

ReadOnlySession == g_user # None /\ g_user[1].role \in {engineer, billing}

(* C11: a request made with the session of an engineer or billing user, to *)
(* any route, changes no Contact, Message, User or ScheduledEmail, arms no  *)
(* timer and calls no sender.                                               *)
C11_ReadOnlyRolesChangeNothing ==
    [][(ReadOnlySession /\ response'.route # "create_app")
       => /\ UNCHANGED <<users, contacts, messages, scheduled, timers>>
          /\ sent' = <<>>]_vars

-----------------------------------------------------------------------------
(* Properties of the senders, checked under SpecMessages *)

(* C12: send_email and send_sms never raise: in every environment every    *)
(* call that was made returned a boolean, and neither sender returns true  *)
(* for a message the transport did not accept.                             *)
C12_SendersReturnABoolean ==
    /\ \A i \in 1..Len(sent) : sent[i].returned \in {"True", "False"}
    /\ send_email(<<"a">>, <<"s">>, <<"b">>, FALSE) # "True"
    /\ send_sms(<<"5">>, <<"b">>, FALSE) # "True"

-----------------------------------------------------------------------------
(* Properties of a firing, checked under SpecSchedulerSettings *)

(* C13: when the timer of an entry fires, the email sender is called once  *)
(* and sent_at is recorded, whether or not the contact is still stored;    *)
(* a non-recurring entry that has fired has its sent_at populated and no   *)
(* timer armed for it.                                                     *)
C13_FiringSendsAndRecords ==
    /\ [][\A sid \in DOMAIN scheduled :
              [sid |-> sid, at |-> scheduled[sid].start_at] \in fired' \ fired
              => /\ Len(sent') = 1
                 /\ sent'[1].sender = "send_email"
                 /\ scheduled'[sid].sent_at = Some(now)
                 /\ ~scheduled[sid].recurring
                    => \A t \in BagToSet(timers') : t.sid # sid]_vars
    /\ [](\A sid \in DOMAIN scheduled :
              (~scheduled[sid].recurring /\ FiredAt(sid) # {})
              => scheduled[sid].sent_at # None /\ ~Armed(sid))

-----------------------------------------------------------------------------
(* Properties of the timers, checked under SpecScheduler *)

(* The number of timers armed for an entry *)
TimersOf(sid) ==
    LET of == {t \in BagToSet(timers) : t.sid = sid}
        count[S \in SUBSET of] ==
            IF S = {} THEN 0
            ELSE LET t == CHOOSE u \in S : TRUE
                 IN  CopiesIn(t, timers) + count[S \ {t}]
    IN  count[of]

(* C14: with every entry passed to schedule_email_job once, when it is     *)
(* created, at most one timer is armed for an entry in every state, and    *)
(* every timer is the timer of a stored entry: a firing consumes its timer *)
(* and arms at most one successor.                                         *)
C14_OneTimerPerEntry ==
    /\ \A t \in BagToSet(timers) : t.sid \in DOMAIN scheduled
    /\ \A sid \in DOMAIN scheduled : TimersOf(sid) <= 1

(* A firing has armed its successor *)
C14_Witness ==
    /\ response = [route |-> "timer", result |-> "rearmed"]
    /\ TimersOf(request.id) = 1
    /\ FiredAt(request.id) # {}

-----------------------------------------------------------------------------
(* Properties of the first firing, checked under SpecFiring *)

(* C15: every entry passed to schedule_email_job fires at least once,      *)
(* whatever its start_at and end_at.  Its timer is armed for start_at, or  *)
(* for the present instant when start_at is past; a timer fires at the     *)
(* instant it is due; and an entry whose end_at is earlier than its        *)
(* start_at fires exactly once.                                            *)
C15_EveryEntryFires ==
    /\ \A sid \in 1..MaxScheduled :
           <>[](sid \in DOMAIN scheduled => FiredAt(sid) # {})
    /\ [][/\ \A sid \in DOMAIN scheduled' \ DOMAIN scheduled :
                 \E t \in BagToSet(timers') :
                     /\ t.sid = sid
                     /\ t.due = IF scheduled'[sid].start_at < now THEN now
                                ELSE scheduled'[sid].start_at
          /\ \A sid \in DOMAIN scheduled :
                 [sid |-> sid, at |-> scheduled[sid].start_at]
                     \in fired' \ fired
                 => \E t \in BagToSet(timers) : t.sid = sid /\ t.due = now]_vars
    /\ [](\A sid \in DOMAIN scheduled :
              (/\ scheduled[sid].end_at # None
               /\ scheduled[sid].end_at[1] < FirstStart(sid))
              => /\ Cardinality(FiredAt(sid)) <= 1
                 /\ FiredAt(sid) # {} => ~Armed(sid))

(* An entry whose end_at is before its start_at has fired, with its        *)
(* contact stored                                                          *)
C15_Witness ==
    \E sid \in DOMAIN scheduled :
        /\ scheduled[sid].end_at # None
        /\ scheduled[sid].end_at[1] < scheduled[sid].start_at
        /\ FiredAt(sid) = {scheduled[sid].start_at}
        /\ scheduled[sid].contact_id \in DOMAIN contacts
        /\ response.route = "timer"

-----------------------------------------------------------------------------
(* Properties of the last firing, checked under SpecFiring *)

(* An entry that is not recurring, or recurring with an end_at *)
Bounded(sid) == ~scheduled[sid].recurring \/ scheduled[sid].end_at # None

====
